---- MODULE Spec2Model ----
(***************************************************************************)
(* Model of moveit_experimental/distance_field/src/openvdb_distance_field   *)
(* .cpp: the CollisionRobotOpenVDB engine (link classification, field       *)
(* construction, adaptive sphere packing, allow-list filter, self-distance  *)
(* query) and the OpenVDBDistanceField it builds.                           *)
(*                                                                          *)
(* Distances are integers in model units; voxel sizes are exact rationals   *)
(* <<num, den>> (halving a binary float is exact); vectors are integer      *)
(* triples, normalised vectors are fixed-point triples scaled by Unit.      *)
(* What OpenVDB and MoveIt compute from geometry (voxel values, raw         *)
(* gradients, the packer's spheres) is an input of the model.               *)
(***************************************************************************)
EXTENDS Integers, Sequences, FiniteSets, TLC

\* ------------------------------------------------------------------ bounds
\* Number of links of the kinematic model (links are 1..NumLinks; a link's
\* name is its number, so name order is number order).
NumLinks == 3
\* Largest number of spheres one call of the packer returns in the model.
MaxPack == 3
\* The configured background distance (constructor argument background).
Background == 10
\* The configured exterior / interior band widths (constructor arguments).
ExBand == 3
InBand == 1
\* Numerator of the configured voxel size (constructor argument voxel_size).
VoxelNum == 1

\* approxEqual's tolerance in model distance units: two distances are
\* approxEqual when |a - b| < ApproxEps (the code's eps is 0.00001).
ApproxEps == 2

\* ------------------------------------------------------- program constants
\* for (j = 0; j < 10; ++j) in createActiveSDFs.
MaxAttempts == 10
\* const auto n_spheres = 20.
n_spheres == 20

Links == 1..NumLinks
\* a null grid_ / accessor_ pointer: a grid holds at least one volume
NullGrid == <<>>
\* a null AllowedCollisionMatrix pointer, and a pointer to the matrix m
NullAcm == [null |-> TRUE, entries |-> <<>>]
AcmPtr(m) == [null |-> FALSE, entries |-> m]
\* Eigen::Affine3d::Identity()
Identity == <<>>
\* the empty std::string (link names are 1..NumLinks)
NoName == 0
Static == "Static"
Dynamic == "Dynamic"
Active == "Active"

VARIABLES
  robot_model_,     \* the borrowed kinematic model (constructor argument)
  links_,           \* links with collision geometry
  acm_,             \* allowed collision matrix: <<name1, name2>> -> type
  static_links_, static_sdf_,
  active_links_, active_sdf_, active_spheres_,
  dynamic_links_, dynamic_sdf_,
  dist_query_,      \* the query plan templates
  pc,               \* position of the constructor / "ready" / "crashed"
  loop,             \* locals of createActiveSDFs' loops: i, j, v, sdf
  ub,               \* undefined behaviours executed so far
  log,              \* what was logged: <<level, message, link>>
  res,              \* the caller's DistanceResult object
  call              \* the last call of an operation: its inputs and outputs

vars == <<robot_model_, links_, acm_, static_links_, static_sdf_, active_links_,
          active_sdf_, active_spheres_, dynamic_links_, dynamic_sdf_, dist_query_,
          pc, loop, ub, log, res, call>>

\* ----------------------------------------------------------------- helpers
\* std::find(v.begin(), v.end(), x) != v.end()
Contains(v, x) == \E k \in 1..Len(v) : v[k] = x

\* the elements of the set S of integers in ascending order
RECURSIVE Ascending(_)
Ascending(S) == IF S = {} THEN <<>>
                ELSE LET m == CHOOSE x \in S : \A y \in S : x <= y
                     IN <<m>> \o Ascending(S \ {m})

Range(v) == {v[k] : k \in 1..Len(v)}

\* ------------------------------------------------------ exact voxel sizes
RECURSIVE Gcd(_, _)
Gcd(a, b) == IF b = 0 THEN a ELSE Gcd(b, a % b)

\* a rational <<num, den>> in lowest terms
Rat(n, d) == LET g == Gcd(n, d) IN <<n \div g, d \div g>>

\* v * 0.5
Half(v) == Rat(v[1], 2 * v[2])

\* (a / b) * w for rationals a, b and w
Scaled(a, b, w) == Rat(a[1] * b[2] * w[1], a[2] * b[1] * w[2])

\* the h with v = voxel_size / 2^h, for the voxel size <<VoxelNum, 1>>
RECURSIVE Log2(_)
Log2(n) == IF n <= 1 THEN 0 ELSE 1 + Log2(n \div 2)

Halvings(v) == Log2(Scaled(<<VoxelNum, 1>>, v, <<1, 1>>)[1])

\* ------------------------------------------------- OpenVDBDistanceField
Unsupported == {"OCTREE", "PLANE", "UNKNOWN_SHAPE"}

\* OpenVDBDistanceField(voxel_size, background): grid_ and accessor_ are null
OpenVDBDistanceField(voxel_size, background) ==
  [voxel_size_ |-> voxel_size, background_ |-> background,
   grid_ |-> NullGrid, accessor_ |-> NullGrid]

\* The level set built from one shape (meshToVolume, createLevelSetSphere):
\* a symbolic volume. createLevelSetSphere takes one half width only.
ShapeVolume(sdf, type, pose, exBandWidth, inBandWidth) ==
  [type |-> type, pose |-> pose, voxel |-> sdf.voxel_size_, ex |-> exBandWidth,
   inb |-> IF type = "SPHERE" THEN exBandWidth ELSE inBandWidth]

\* openvdb::tools::csgUnion(*grid_, *grid): the union of the volumes
csgUnion(grid_, grid) == grid_ \o grid

\* addShapeToField: an unsupported shape returns before grid_ is touched
addShapeToField(sdf, type, pose, exBandWidth, inBandWidth) ==
  IF type \in Unsupported THEN sdf
  ELSE LET grid == <<ShapeVolume(sdf, type, pose, exBandWidth, inBandWidth)>>
           g == IF sdf.grid_ = NullGrid THEN grid ELSE csgUnion(sdf.grid_, grid)
       IN [sdf EXCEPT !.grid_ = g, !.accessor_ = g]

\* addLinkToField: every shape of the link, from shape j on
RECURSIVE addLinkToFieldFrom(_, _, _, _, _, _)
addLinkToFieldFrom(sdf, link, pose, exBandWidth, inBandWidth, j) ==
  LET shapes == robot_model_.shapes[link]
  IN IF j > Len(shapes) THEN sdf
     ELSE addLinkToFieldFrom(
            addShapeToField(sdf, shapes[j], <<pose, link, j>>, exBandWidth, inBandWidth),
            link, pose, exBandWidth, inBandWidth, j + 1)

addLinkToField(sdf, link, pose, exBandWidth, inBandWidth) ==
  addLinkToFieldFrom(sdf, link, pose, exBandWidth, inBandWidth, 1)

\* the configured parameters as the constructor stores them
voxel_size_ == Rat(VoxelNum, 1)
background_ == Background
exBandWidth_ == Rat(ExBand, 1)
inBandWidth_ == Rat(InBand, 1)

\* ------------------------------------------------ allowed collision matrix
\* AllowedCollisionMatrix::setEntry(name1, name2, allowed): both directions
setEntry(acm, name1, name2, allowed) ==
  LET v == IF allowed THEN "ALWAYS" ELSE "NEVER"
      ks == {<<name1, name2>>, <<name2, name1>>}
  IN [p \in (DOMAIN acm) \cup ks |-> IF p \in ks THEN v ELSE acm[p]]

\* setEntry(names, names, false): every pair of the two lists
RECURSIVE setEntries(_, _, _, _)
setEntries(acm, names, k, allowed) ==
  IF k > Len(names) * Len(names) THEN acm
  ELSE LET a == names[((k - 1) \div Len(names)) + 1]
           b == names[((k - 1) % Len(names)) + 1]
       IN setEntries(setEntry(acm, a, b, allowed), names, k + 1, allowed)

\* the loop over the SRDF's disabled collision pairs
RECURSIVE setDisabled(_, _, _)
setDisabled(acm, dc, k) ==
  IF k > Len(dc) THEN acm
  ELSE setDisabled(setEntry(acm, dc[k][1], dc[k][2], TRUE), dc, k + 1)

\* createDefaultAllowedCollisionMatrix
createDefaultAllowedCollisionMatrix ==
  setDisabled(setEntries(<<>>, links_, 1, FALSE), robot_model_.disabled, 1)

isCollisionAllowed_unless_never(l1, l2, acm) ==
  IF ~acm.null
  THEN LET found == <<l1, l2>> \in DOMAIN acm.entries
       IN IF found THEN acm.entries[<<l1, l2>>] # "NEVER" ELSE TRUE
  ELSE FALSE

\* isCollisionAllowed(l1, l2, acm): true only for a found ALWAYS entry
isCollisionAllowed(l1, l2, acm) ==
  IF ~acm.null
  THEN LET found == <<l1, l2>> \in DOMAIN acm.entries
       IN IF found THEN acm.entries[<<l1, l2>>] = "ALWAYS" ELSE FALSE
  ELSE FALSE

\* ------------------------------------------------------ link classification
\* addAssociatedFixedTransforms(link, links_so_far), from map position it on.
\* st holds links_so_far (passed by reference) and the members it appends to.
RECURSIVE addAssociatedFixedTransforms(_, _, _)
addAssociatedFixedTransforms(link, it, st) ==
  LET fixed_attached == robot_model_.fixed[link]
  IN IF it > Len(fixed_attached) THEN st
     ELSE LET first == fixed_attached[it]
          IN IF ~Contains(st.links_so_far, first)
             THEN LET sdf == addLinkToField(OpenVDBDistanceField(voxel_size_, background_),
                                            first, <<link, first>>, exBandWidth_, inBandWidth_)
                      pushed == [st EXCEPT !.links_so_far = Append(@, first)]
                      added == IF Contains(links_, first)
                               THEN [pushed EXCEPT !.static_links_ = Append(@, first),
                                                   !.static_sdf_ = Append(@, sdf)]
                               ELSE pushed
                  IN addAssociatedFixedTransforms(link, it + 1,
                       addAssociatedFixedTransforms(first, 1, added))
             ELSE addAssociatedFixedTransforms(link, it + 1, st)

\* createStaticSDFs: the root if it has geometry, then the walk from the root
createStaticSDFs ==
  LET root_link == robot_model_.root
      sdf == addLinkToField(OpenVDBDistanceField(voxel_size_, background_),
                            root_link, Identity, exBandWidth_, inBandWidth_)
      st == IF Contains(links_, root_link)
            THEN [links_so_far |-> <<>>, static_links_ |-> <<root_link>>, static_sdf_ |-> <<sdf>>]
            ELSE [links_so_far |-> <<>>, static_links_ |-> <<>>, static_sdf_ |-> <<>>]
  IN addAssociatedFixedTransforms(root_link, 1, st)

\* createActiveSDFs, lines 75-88: the members of the joint groups that have
\* collision geometry, each once
RECURSIVE activeLinksFrom(_, _, _)
activeLinksFrom(active, i, j) ==
  LET groups == robot_model_.groups
  IN IF i > Len(groups) THEN active
     ELSE LET links == groups[i].links
          IN IF j > Len(links) THEN activeLinksFrom(active, i + 1, 1)
             ELSE IF ~Contains(active, links[j]) /\ Contains(links_, links[j])
                  THEN activeLinksFrom(Append(active, links[j]), i, j + 1)
                  ELSE activeLinksFrom(active, i, j + 1)

\* v.erase(std::remove(v.begin(), v.end(), x)): the one x is removed. When x
\* is not in v, remove returns end() and erase(end()) is undefined: the
\* vector is left as it is or loses its last element (or the call crashes).
eraseRemove(v, x) ==
  IF Contains(v, x)
  THEN {[links |-> SelectSeq(v, LAMBDA e : e # x), ub |-> FALSE]}
  ELSE {[links |-> v, ub |-> TRUE]} \cup
       (IF Len(v) > 0 THEN {[links |-> SubSeq(v, 1, Len(v) - 1), ub |-> TRUE]} ELSE {})

\* the two removal loops of createDynamicSDFs over the list xs, from k on
RECURSIVE eraseRemoveAll(_, _, _)
eraseRemoveAll(outs, xs, k) ==
  IF k > Len(xs) THEN outs
  ELSE eraseRemoveAll(
         UNION {{[links |-> n.links, ub |-> o.ub \/ n.ub] : n \in eraseRemove(o.links, xs[k])} : o \in outs},
         xs, k + 1)

\* createDynamicSDFs, lines 131-143: the possible dynamic_links_
dynamicLinks ==
  eraseRemoveAll(eraseRemoveAll({[links |-> links_, ub |-> FALSE]}, static_links_, 1),
                 active_links_, 1)

\* one field per dynamic link at the nominal voxel size and bands
dynamicSdf(dyn) ==
  [i \in 1..Len(dyn) |->
     addLinkToField(OpenVDBDistanceField(voxel_size_, background_), dyn[i], Identity,
                    exBandWidth_, inBandWidth_)]


\* ------------------------------------------------------------- query plans
\* a default-constructed DistanceQueryData for one parent
DistanceQueryData(parent_name) ==
  [parent_name |-> parent_name, empty |-> TRUE, child_name |-> <<>>, child_index |-> <<>>,
   child_type |-> <<>>, spheres |-> <<>>, gradient |-> FALSE]

\* one of the three candidate loops of createDefaultDistanceQuery for parent
\* j: the links of one class from position i on (positions count from 1)
RECURSIVE addChildren(_, _, _, _, _)
addChildren(data, links, type, j, i) ==
  IF i > Len(links) THEN data
  ELSE IF (type # Active \/ i # j)
          /\ ~isCollisionAllowed(links[i], active_links_[j], AcmPtr(acm_))
       THEN addChildren([data EXCEPT !.child_name = Append(@, links[i]),
                                     !.child_index = Append(@, i),
                                     !.child_type = Append(@, type)],
                        links, type, j, i + 1)
       ELSE addChildren(data, links, type, j, i + 1)

\* createDefaultDistanceQuery: one plan per active link
createDefaultDistanceQuery ==
  [j \in 1..Len(active_links_) |->
     LET data == DistanceQueryData(active_links_[j])
     IN IF Len(active_spheres_[j]) = 0 THEN data
        ELSE addChildren(
               addChildren(
                 addChildren([data EXCEPT !.empty = FALSE], active_links_, Active, j, 1),
                 dynamic_links_, Dynamic, j, 1),
               static_links_, Static, j, 1)]

\* --------------------------------------------------------- sphere packing
\* a null OpenVDBDistanceFieldPtr (active_sdf_ after resize)
NullSdf == [null |-> TRUE]

\* The spheres openvdb::tools::fillWithSpheres finds in the field of `link`
\* built at the voxel size v: the kinematic model's geometry decides how many
\* (robot_model_.pack), never more than maxSphereCount.
packedSpheres(link, v, maxSphereCount) ==
  LET n == robot_model_.pack[link][Halvings(v) + 1]
      m == IF n < maxSphereCount THEN n ELSE maxSphereCount
  IN [k \in 1..m |-> [origin |-> <<v, k>>, radius |-> k]]

fillWithSpheres_replacing(spheres, sdf, link, maxSphereCount) ==
  packedSpheres(link, sdf.voxel_size_, maxSphereCount)

\* OpenVDBDistanceField::fillWithSpheres: the packer's spheres are appended
\* to the caller's vector
fillWithSpheres(spheres, sdf, link, maxSphereCount) ==
  spheres \o packedSpheres(link, sdf.voxel_size_, maxSphereCount)

\* the retry loop's stop test, line 114
enoughSpheres(spheres) == Len(spheres) > 1


\* ------------------------------------------------------------ vector math
\* fixed-point scale of normalised vectors: a unit vector has length Unit
Unit == 1000

Abs(a) == IF a < 0 THEN -a ELSE a

\* a / b rounded toward zero, b > 0
Quot(a, b) == IF a >= 0 THEN a \div b ELSE -((-a) \div b)

\* the largest r with r * r <= n, by bisection on lo..hi
RECURSIVE ISqrtIn(_, _, _)
ISqrtIn(n, lo, hi) ==
  IF lo >= hi THEN lo
  ELSE LET mid == (lo + hi + 1) \div 2
       IN IF mid * mid <= n THEN ISqrtIn(n, mid, hi) ELSE ISqrtIn(n, lo, mid - 1)

ISqrt(n) == ISqrtIn(n, 0, 46340)

Zero3 == <<0, 0, 0>>
Add3(a, b) == <<a[1] + b[1], a[2] + b[2], a[3] + b[3]>>
Scale3(a, w) == <<a[1] * w, a[2] * w, a[3] * w>>
Dot3(a, b) == a[1] * b[1] + a[2] * b[2] + a[3] * b[3]
\* openvdb Vec3::sum()
Sum3(a) == a[1] + a[2] + a[3]

\* openvdb Vec3::normalize() of an integer vector: a (near) zero vector is
\* left as it is, any other becomes a fixed-point unit vector
VdbNormalize(a) ==
  IF Dot3(a, a) = 0 THEN a
  ELSE LET f == IF Dot3(a, a) <= 200000 THEN 100 ELSE 1
           n == ISqrt(Dot3(a, a) * f * f)
       IN <<Quot(a[1] * Unit * f, n), Quot(a[2] * Unit * f, n), Quot(a[3] * Unit * f, n)>>

\* Eigen's normalize() (3.3 and later) of a fixed-point vector: a zero vector
\* is left as it is (Eigen 3.2 divides by the zero norm and yields NaN)
EigenNormalize(a) ==
  IF Dot3(a, a) = 0 THEN a
  ELSE LET n == ISqrt(Dot3(a, a) * 256)
       IN <<Quot(a[1] * Unit * 16, n), Quot(a[2] * Unit * 16, n), Quot(a[3] * Unit * 16, n)>>

\* a fixed-point vector of unit magnitude, within 2 percent
IsUnit(a) ==
  /\ Dot3(a, a) * 100 >= Unit * Unit * 96
  /\ Dot3(a, a) * 100 <= Unit * Unit * 104

\* rotation by q quarter turns about z
RECURSIVE Rotate(_, _)
Rotate(q, a) == IF q = 0 THEN a ELSE Rotate(q - 1, <<-a[2], a[1], a[3]>>)

\* baseMap()->applyIJT(v) for a transform of rotation rot and voxel size
\* voxel: the rotated vector divided by the voxel size, here times the
\* voxel size's denominator (the positive factor left is removed by the
\* normalisation that follows)
applyIJT(tf, a) == Scale3(Rotate(tf.rot, a), tf.voxel[2])

\* --------------------------------------------------------- self distance
\* std::numeric_limits<double>::max()
DblMax == 1000000

\* a default-constructed collision_detection::DistanceResultsData
DistanceResultsData ==
  [min_distance |-> DblMax, link_name |-> <<NoName, NoName>>, hasNearestPoints |-> FALSE,
   hasGradient |-> FALSE, gradient |-> Zero3]

approxEqual_exact(a, b) == a = b

\* approxEqual(a, b, eps = 0.00001)
approxEqual(a, b) == Abs(a - b) < ApproxEps

\* distanceSelfHelper, lines 542-557: the spheres of the parent against one
\* child; samples[j] is what the child's accessor holds at the voxel of sphere
\* j, and that sphere's number stands for the voxel (child_min_ijk)
RECURSIVE sphereLoop(_, _, _, _)
sphereLoop(data, samples, j, acc) ==
  IF j > Len(data.spheres) THEN acc
  ELSE LET child_dist == samples[j]
           eff == child_dist - data.spheres[j].radius
       IN IF ~approxEqual(child_dist, background_) /\ eff < acc.child_min
          THEN sphereLoop(data, samples, j + 1,
                          [child_min |-> eff, child_min_ijk |-> j, dist_found |-> TRUE])
          ELSE sphereLoop(data, samples, j + 1, acc)

\* line 573: result.sum() != 0.0
gradientUsable(result) == Sum3(result) # 0

\* distanceSelfHelper, lines 535-585: the children from i on. sdfs[i] is the
\* SDFData of child i: samples, raw gradients (per voxel) and transform.
RECURSIVE childLoop(_, _, _, _)
childLoop(data, sdfs, i, acc) ==
  IF i > Len(data.child_index) THEN acc
  ELSE LET child_data == sdfs[i]
           c == sphereLoop(data, child_data.samples, 1,
                           [child_min |-> background_, child_min_ijk |-> 0, dist_found |-> FALSE])
           closer == c.dist_found /\ c.child_min < acc.res.min_distance
           res1 == IF closer
                   THEN [acc.res EXCEPT !.min_distance = c.child_min,
                                        !.link_name = <<@[1], data.child_name[i]>>]
                   ELSE acc.res
           result == IF c.dist_found /\ data.gradient
                     THEN child_data.gradients[c.child_min_ijk] ELSE Zero3
           blend == c.dist_found /\ data.gradient /\ gradientUsable(result)
           weight == background_ - c.child_min
       IN childLoop(data, sdfs, i + 1,
            IF blend
            THEN [res |-> [res1 EXCEPT !.hasGradient = TRUE],
                  total_weights |-> acc.total_weights + weight,
                  gradient |-> Add3(acc.gradient,
                                    Scale3(VdbNormalize(applyIJT(child_data.transform, result)), weight))]
            ELSE [acc EXCEPT !.res = res1])

\* distanceSelfHelper(data, sdfs_data, res), res default-constructed
distanceSelfHelper(data, sdfs) ==
  LET res0 == [DistanceResultsData EXCEPT !.min_distance = background_,
                                          !.link_name = <<data.parent_name, @[2]>>,
                                          !.hasNearestPoints = FALSE]
      acc == childLoop(data, sdfs, 1, [res |-> res0, total_weights |-> 0, gradient |-> Zero3])
  IN IF acc.res.hasGradient
     THEN IF acc.total_weights = 0
          THEN [acc.res EXCEPT !.gradient = Zero3]
          ELSE [acc.res EXCEPT !.gradient =
                  EigenNormalize(<<Quot(acc.gradient[1], acc.total_weights),
                                   Quot(acc.gradient[2], acc.total_weights),
                                   Quot(acc.gradient[3], acc.total_weights)>>)]
     ELSE acc.res

\* a cleared collision_detection::DistanceResult: distance is the std::map
\* from link name to DistanceResultsData
DistanceResult == [distance |-> <<>>, minimum_distance |-> DistanceResultsData]

\* std::map::insert(make_pair(key, d)): an existing entry is kept
mapInsert(m, key, d) ==
  IF key \in DOMAIN m THEN m ELSE [k \in (DOMAIN m) \cup {key} |-> IF k = key THEN d ELSE m[k]]

\* std::map::operator[](key): a missing entry is default-constructed
mapIndex(m, key) ==
  IF key \in DOMAIN m THEN m
  ELSE [k \in (DOMAIN m) \cup {key} |-> IF k = key THEN DistanceResultsData ELSE m[k]]

minimumIndex_last(m, keys, index, d) ==
  IF keys = <<>> THEN index ELSE m[keys[Len(keys)]].link_name[1]

\* distanceSelf, lines 476-485: the key of the smallest entry below
\* background_, the first key when there is none, over the keys in map order
RECURSIVE minimumIndex(_, _, _, _)
minimumIndex(m, keys, index, d) ==
  IF keys = <<>> THEN index
  ELSE LET it == m[Head(keys)]
       IN IF it.min_distance < d
          THEN minimumIndex(m, Tail(keys), it.link_name[1], it.min_distance)
          ELSE minimumIndex(m, Tail(keys), index, d)

\* the field of candidate (type, index)
childField(type, index) ==
  IF type = Static THEN static_sdf_[index]
  ELSE IF type = Dynamic THEN dynamic_sdf_[index]
  ELSE active_sdf_[index]

\* distanceSelf, lines 432-448: the plan copies with the parents' spheres in
\* world coordinates (tf * origin, symbolic) and the request's gradient flag
snapshot(gradient) ==
  [i \in 1..Len(dist_query_) |->
     [dist_query_[i] EXCEPT
        !.spheres = [k \in 1..Len(active_spheres_[i]) |->
                       [active_spheres_[i][k] EXCEPT !.origin = <<active_links_[i], @>>]],
        !.gradient = gradient]]

\* ------------------------------------------------------------- constructor
IdleLoop == [i |-> 0, j |-> 0, v |-> voxel_size_, sdf |-> NullSdf]

\* The state when the constructor's body starts: links_ is set by the member
\* initialisers from the model's links with collision geometry.
InitWith(Models) ==
  /\ robot_model_ \in Models
  /\ links_ = Ascending({l \in Links : Len(robot_model_.shapes[l]) > 0})
  /\ acm_ = <<>>
  /\ static_links_ = <<>> /\ static_sdf_ = <<>>
  /\ active_links_ = <<>> /\ active_sdf_ = <<>> /\ active_spheres_ = <<>>
  /\ dynamic_links_ = <<>> /\ dynamic_sdf_ = <<>>
  /\ dist_query_ = <<>>
  /\ pc = "acm"
  /\ loop = IdleLoop
  /\ ub = {}
  /\ log = {}
  /\ res = DistanceResult
  /\ call = [op |-> "none"]

CreateDefaultAllowedCollisionMatrix ==
  /\ pc = "acm"
  /\ acm_' = createDefaultAllowedCollisionMatrix
  /\ pc' = "static"
  /\ UNCHANGED <<robot_model_, links_, static_links_, static_sdf_, active_links_, active_sdf_,
                 active_spheres_, dynamic_links_, dynamic_sdf_, dist_query_, loop, ub, log,
                 res, call>>

CreateStaticSDFs ==
  /\ pc = "static"
  /\ LET st == createStaticSDFs
     IN /\ static_links_' = st.static_links_
        /\ static_sdf_' = st.static_sdf_
  /\ pc' = "active"
  /\ UNCHANGED <<robot_model_, links_, acm_, active_links_, active_sdf_,
                 active_spheres_, dynamic_links_, dynamic_sdf_, dist_query_, loop, ub, log,
                 res, call>>

\* createActiveSDFs, lines 75-91: the active links and the two resizes
CreateActiveSDFs ==
  /\ pc = "active"
  /\ LET active == activeLinksFrom(<<>>, 1, 1)
     IN /\ active_links_' = active
        /\ active_sdf_' = [i \in 1..Len(active) |-> NullSdf]
        /\ active_spheres_' = [i \in 1..Len(active) |-> <<>>]
        /\ IF Len(active) > 0
           THEN pc' = "pack" /\ loop' = [IdleLoop EXCEPT !.i = 1]
           ELSE pc' = "dynamic" /\ loop' = IdleLoop
  /\ UNCHANGED <<robot_model_, links_, acm_, static_links_, static_sdf_,
                 dynamic_links_, dynamic_sdf_, dist_query_, ub, log, res, call>>

\* createActiveSDFs, lines 98-118: one attempt of the retry loop for link i.
\* fillWithSpheres dereferences grid_: with no supported shape it is null,
\* which is undefined (the call crashes, or returns having added nothing).
PackAttempt ==
  /\ pc = "pack"
  /\ LET i == loop.i
         v == loop.v
         link == active_links_[i]
         sdf == addLinkToField(OpenVDBDistanceField(v, background_), link, Identity,
                               Scaled(voxel_size_, v, exBandWidth_),
                               Scaled(voxel_size_, v, inBandWidth_))
         null == sdf.grid_ = NullGrid
         outs == IF null
                 THEN {[crash |-> TRUE, spheres |-> active_spheres_[i]],
                       [crash |-> FALSE, spheres |-> active_spheres_[i]]}
                 ELSE {[crash |-> FALSE,
                        spheres |-> fillWithSpheres(active_spheres_[i], sdf, link, n_spheres)]}
     IN \E o \in outs :
          /\ ub' = IF null THEN ub \cup {"fillWithSpheres: null grid_"} ELSE ub
          /\ IF o.crash
             THEN /\ pc' = "crashed"
                  /\ UNCHANGED <<active_spheres_, loop, log>>
             ELSE /\ active_spheres_' = [active_spheres_ EXCEPT ![i] = o.spheres]
                  /\ log' = IF Len(o.spheres) = 0
                            THEN log \cup {<<"WARN", "Unable to fill grid with spheres.", link>>}
                            ELSE log
                  /\ IF enoughSpheres(o.spheres)
                     THEN /\ loop' = [loop EXCEPT !.sdf = sdf]
                          /\ pc' = "store"
                     ELSE /\ loop' = [loop EXCEPT !.sdf = sdf, !.v = Half(v), !.j = @ + 1]
                          /\ pc' = IF loop.j + 1 < MaxAttempts THEN "pack" ELSE "store"
  /\ UNCHANGED <<robot_model_, links_, acm_, static_links_, static_sdf_, active_links_,
                 active_sdf_, dynamic_links_, dynamic_sdf_, dist_query_, res, call>>

\* createActiveSDFs, lines 120-125: the error for no sphere at all, and the
\* last attempt's field becomes the link's field
PackStore ==
  /\ pc = "store"
  /\ LET i == loop.i
     IN /\ log' = IF Len(active_spheres_[i]) = 0
                  THEN log \cup {<<"ERROR", "Unable to generate spheres for link", active_links_[i]>>}
                  ELSE log
        /\ active_sdf_' = [active_sdf_ EXCEPT ![i] = loop.sdf]
        /\ IF i < Len(active_links_)
           THEN pc' = "pack" /\ loop' = [IdleLoop EXCEPT !.i = i + 1]
           ELSE pc' = "dynamic" /\ loop' = IdleLoop
  /\ UNCHANGED <<robot_model_, links_, acm_, static_links_, static_sdf_, active_links_,
                 active_spheres_, dynamic_links_, dynamic_sdf_, dist_query_, ub, res, call>>

CreateDynamicSDFs ==
  /\ pc = "dynamic"
  /\ \E o \in dynamicLinks : \E crash \in {FALSE, o.ub} :
       /\ ub' = IF o.ub THEN ub \cup {"createDynamicSDFs: erase(end())"} ELSE ub
       /\ IF crash
          THEN pc' = "crashed" /\ UNCHANGED <<dynamic_links_, dynamic_sdf_>>
          ELSE /\ dynamic_links_' = o.links
               /\ dynamic_sdf_' = dynamicSdf(o.links)
               /\ pc' = "plan"
  /\ UNCHANGED <<robot_model_, links_, acm_, static_links_, static_sdf_, active_links_,
                 active_sdf_, active_spheres_, dist_query_, loop, log, res, call>>

CreateDefaultDistanceQuery ==
  /\ pc = "plan"
  /\ dist_query_' = createDefaultDistanceQuery
  /\ pc' = "ready"
  /\ UNCHANGED <<robot_model_, links_, acm_, static_links_, static_sdf_, active_links_,
                 active_sdf_, active_spheres_, dynamic_links_, dynamic_sdf_, loop, ub, log,
                 res, call>>

\* the constructor CollisionRobotOpenVDB(model, voxel_size, background, ...)
Constructor ==
  \/ CreateDefaultAllowedCollisionMatrix
  \/ CreateStaticSDFs
  \/ CreateActiveSDFs
  \/ PackAttempt
  \/ PackStore
  \/ CreateDynamicSDFs
  \/ CreateDefaultDistanceQuery

\* ------------------------------------------------------ kinematic models
\* the ascending lists of the subsets of S
Lists(S) == {Ascending(T) : T \in SUBSET S}

\* the packer finds n spheres at every voxel size
ConstPack(n) == [k \in 1..MaxAttempts |-> n]

\* every model of NumLinks links with one BOX per collision link: any root,
\* any fixed-attachment relation, no group, one group or two groups
ClassifyModels ==
  [root : Links,
   fixed : {f \in [Links -> Lists(Links)] : \A l \in Links : ~Contains(f[l], l)},
   groups : {<<>>} \cup {<<[name |-> "g1", links |-> g]>> : g \in Lists(Links)}
            \cup {<<[name |-> "g1", links |-> g], [name |-> "g2", links |-> <<NumLinks>>]>> :
                    g \in Lists(Links)},
   shapes : [Links -> {<<>>, <<"BOX">>}],
   disabled : {<<>>},
   pack : {[l \in Links |-> ConstPack(2)]}]

InitClassify == InitWith(ClassifyModels)
SpecClassify == InitClassify /\ [][Constructor]_vars

\* ------------------------------------------------------------ distanceSelf
\* some field handed to SDFData has a null grid
anyNullGrid ==
  \E f \in Range(static_sdf_) \cup Range(dynamic_sdf_) \cup Range(active_sdf_) : f.grid_ = NullGrid

groupNames == {robot_model_.groups[k].name : k \in 1..Len(robot_model_.groups)}

copiedFrom_aliased(member, working) == working

\* line 421, std::vector<DistanceQueryData> dist_query(dist_query_): the
\* function works on a copy, so the member is after the writes to the
\* working plans what it was before
copiedFrom(member, working) == member

\* distanceSelf, lines 421-463. getJointModelGroup returns NULL for an unknown
\* name and line 430 calls a member function through it: undefined (the
\* returned reference is never used, so the call crashes or goes on). SDFData
\* takes the accessor of each grid: undefined for a null grid.
\* The caller passes a cleared result object (fresh) or the one the last call
\* filled; Gradients and Fresh are the values a specification lets it choose.
DistanceSelfBegin(Gradients, Fresh) ==
  /\ pc = "ready"
  /\ \E group_name \in groupNames \cup {"unknown"}, gradient \in Gradients, fresh \in Fresh :
       LET unknown == group_name \notin groupNames
           hit == (IF unknown THEN {"distanceSelf: NULL group"} ELSE {})
                  \cup (IF anyNullGrid THEN {"SDFData: null grid"} ELSE {})
       IN \E crash \in {FALSE, hit # {}} :
            /\ ub' = ub \cup hit
            /\ res' = IF fresh THEN DistanceResult ELSE res
            /\ call' = [op |-> "distanceSelf", group_name |-> group_name, gradient |-> gradient,
                        unknown |-> unknown, fresh |-> fresh,
                        dist_query |-> snapshot(gradient), i |-> 1, evals |-> <<>>,
                        sdfs_data |-> <<>>, done |-> FALSE, read_end |-> FALSE]
            /\ dist_query_' = copiedFrom(dist_query_, snapshot(gradient))
            /\ pc' = IF crash THEN "crashed" ELSE "query"
  /\ UNCHANGED <<robot_model_, links_, acm_, static_links_, static_sdf_, active_links_,
                 active_sdf_, active_spheres_, dynamic_links_, dynamic_sdf_,
                 loop, log>>

\* what a voxel of a candidate's field can hold: the background, a value
\* approxEqual to it, two distances inside the band, and a value above the
\* background (the grid's own background is the exterior band width times
\* the voxel size, which the configured background does not bound)
SampleVals == {Background + 2, Background, Background - 1, 6, 4}

\* what a candidate's field holds at the voxels of n spheres: the same value
\* at all of them, or a distance at the first and the background at the rest
SamplePatterns(n) ==
  {[j \in 1..n |-> s] : s \in SampleVals} \cup
  {[j \in 1..n |-> IF j = 1 THEN 4 ELSE Background]}

\* the SDFData of one candidate of plan data: a sample per sphere, one raw
\* gradient from Grads for all voxels (read only when the request asks for
\* gradients), a rotation from Rots
ChildWorlds(data, i, Grads, Rots) ==
  [samples : SamplePatterns(Len(data.spheres)),
   gradients : {[j \in 1..Len(data.spheres) |-> g] :
                  g \in IF data.gradient THEN Grads ELSE {Zero3}},
   transform : [rot : Rots,
                voxel : {childField(data.child_type[i], data.child_index[i]).voxel_size_}]]

\* one SDFData per candidate: the sequences over the candidates' worlds
RECURSIVE WorldsFrom(_, _, _, _)
WorldsFrom(data, i, Grads, Rots) ==
  IF i > Len(data.child_index) THEN {<<>>}
  ELSE {<<w>> \o rest : w \in ChildWorlds(data, i, Grads, Rots),
                        rest \in WorldsFrom(data, i + 1, Grads, Rots)}

\* distanceSelf, lines 466-474: one iteration of the loop over the plans.
\* What the robot state and the fields present to the parent of the plan is
\* one SDFData per candidate, with raw gradients from Grads and rotations
\* from Rots. With keep, the call record keeps what was presented to each
\* evaluated plan (call.sdfs_data), next to its result (call.evals).
DistanceSelfEval(Grads, Rots, keep) ==
  /\ pc = "query"
  /\ call.i <= Len(call.dist_query)
  /\ LET data == call.dist_query[call.i]
     IN IF ~data.empty
        THEN \E sdfs \in WorldsFrom(data, 1, Grads, Rots) :
               LET d == distanceSelfHelper(data, sdfs)
               IN /\ res' = [res EXCEPT !.distance = mapInsert(@, d.link_name[1], d)]
                  /\ call' = [call EXCEPT
                                !.i = @ + 1, !.evals = Append(@, d),
                                !.sdfs_data = IF keep
                                              THEN Append(@, [plan |-> call.i, sdfs |-> sdfs])
                                              ELSE @]
        ELSE /\ call' = [call EXCEPT !.i = @ + 1]
             /\ UNCHANGED res
  /\ UNCHANGED <<robot_model_, links_, acm_, static_links_, static_sdf_, active_links_,
                 active_sdf_, active_spheres_, dynamic_links_, dynamic_sdf_, dist_query_,
                 pc, loop, ub, log>>

\* distanceSelf, lines 476-486. With an empty map, begin() is end() and line
\* 477 reads through it: undefined (a crash, or some string is read; the
\* empty string stands for it). Line 486 inserts a missing entry.
DistanceSelfMinimum ==
  /\ pc = "query"
  /\ call.i > Len(call.dist_query)
  /\ LET empty == DOMAIN res.distance = {}
         keys == Ascending(DOMAIN res.distance)
         index == IF empty THEN NoName
                  ELSE minimumIndex(res.distance, keys, res.distance[keys[1]].link_name[1],
                                    background_)
         m == mapIndex(res.distance, index)
     IN \E crash \in {FALSE, empty} :
          /\ ub' = IF empty THEN ub \cup {"distanceSelf: begin() of an empty map"} ELSE ub
          /\ IF crash
             THEN pc' = "crashed" /\ UNCHANGED res
             ELSE /\ res' = [distance |-> m, minimum_distance |-> m[index]]
                  /\ pc' = "ready"
          /\ call' = [call EXCEPT !.done = ~crash, !.read_end = empty]
  /\ UNCHANGED <<robot_model_, links_, acm_, static_links_, static_sdf_, active_links_,
                 active_sdf_, active_spheres_, dynamic_links_, dynamic_sdf_, dist_query_,
                 loop, log>>

\* --------------------------------------------- other calls on the engine
\* isCollisionAllowed(l1, l2, acm) called with a null pointer, with the
\* engine's matrix or with one of the caller's matrices Acms, for any two
\* link names
CallIsCollisionAllowed(Acms) ==
  /\ pc = "ready"
  /\ \E l1 \in Links, l2 \in Links, acm \in {NullAcm, AcmPtr(acm_)} \cup Acms :
       call' = [op |-> "isCollisionAllowed", l1 |-> l1, l2 |-> l2, acm |-> acm,
                ret |-> isCollisionAllowed(l1, l2, acm)]
  /\ UNCHANGED <<robot_model_, links_, acm_, static_links_, static_sdf_, active_links_,
                 active_sdf_, active_spheres_, dynamic_links_, dynamic_sdf_, dist_query_,
                 pc, loop, ub, log, res>>

\* OpenVDBDistanceField::getDistance(coord, thread_safe): the possible
\* returns when the grid holds value at coord. The thread-safe branch
\* dereferences grid_, which is undefined for a null grid_ (a crash, or some
\* value is read); the cached branch tests accessor_ and returns 0 without it.
getDistance(sdf, value, thread_safe) ==
  IF thread_safe
  THEN IF sdf.grid_ = NullGrid
       THEN {[crash |-> TRUE, ret |-> 0, ub |-> TRUE, error |-> FALSE]} \cup
            {[crash |-> FALSE, ret |-> r, ub |-> TRUE, error |-> FALSE] : r \in {0, value}}
       ELSE {[crash |-> FALSE, ret |-> value, ub |-> FALSE, error |-> FALSE]}
  ELSE IF sdf.accessor_ # NullGrid
       THEN {[crash |-> FALSE, ret |-> value, ub |-> FALSE, error |-> FALSE]}
       ELSE {[crash |-> FALSE, ret |-> 0, ub |-> FALSE, error |-> TRUE]}

\* the fields built by the constructor
engineFields ==
  Range(static_sdf_) \cup Range(dynamic_sdf_) \cup {f \in Range(active_sdf_) : f # NullSdf}

\* getDistance called on one of the engine's fields or on a field somebody
\* constructed and added no shape to, at a coordinate where a grid built from
\* shapes holds one of Values
CallGetDistance(Values) ==
  /\ pc = "ready"
  /\ \E sdf \in engineFields \cup {OpenVDBDistanceField(voxel_size_, background_)},
        value \in Values, thread_safe \in BOOLEAN :
       \E o \in getDistance(sdf, value, thread_safe) :
         /\ call' = [op |-> "getDistance", sdf |-> sdf, thread_safe |-> thread_safe,
                     crash |-> o.crash, ret |-> o.ret]
         /\ ub' = IF o.ub THEN ub \cup {"getDistance: null grid_"} ELSE ub
         /\ log' = IF o.error
                   THEN log \cup {<<"ERROR", "Tried to get distance data from and empty grid.", NoName>>}
                   ELSE log
         /\ pc' = IF o.crash THEN "crashed" ELSE "ready"
  /\ UNCHANGED <<robot_model_, links_, acm_, static_links_, static_sdf_, active_links_,
                 active_sdf_, active_spheres_, dynamic_links_, dynamic_sdf_, dist_query_,
                 loop, res>>

\* ----------------------------------------------------------- specifications
\* two opposite raw gradients
QueryGrads == {<<1, 0, 0>>, <<-1, 0, 0>>}

\* The engines of the query specifications. Link NumLinks is the root
\* (Static) with the fixed attachments fixed_attached, link 1 or link 2 or
\* both are in the joint group, the other links are Dynamic; pairs with link
\* 1 may be disabled; link 2 may pack no sphere.
QueryModelsWith(fixed_attached) ==
  [root : {NumLinks},
   fixed : {[l \in Links |-> IF l = NumLinks THEN fixed_attached ELSE <<>>]},
   groups : {<<>>} \cup {<<[name |-> "g1", links |-> g]>> : g \in {<<1>>, <<2>>, <<1, 2>>}},
   shapes : {[l \in Links |-> <<"BOX">>]},
   disabled : {<<>>, <<<<1, 2>>>>, <<<<1, NumLinks>>>>} \cup
              {[k \in 1..(NumLinks - 1) |-> <<1, k + 1>>]},
   pack : {[l \in Links |-> ConstPack(2)],
           [l \in Links |-> IF l = 2 THEN ConstPack(0) ELSE ConstPack(2)]}]

\* no link is fixed to the root
QueryModels == QueryModelsWith(<<>>)

Init == InitWith(QueryModels)

Next ==
  \/ Constructor
  \/ DistanceSelfBegin({FALSE, TRUE}, {TRUE})
  \/ DistanceSelfEval(QueryGrads, {0}, FALSE)
  \/ DistanceSelfMinimum

Spec == Init /\ [][Next]_vars

\* ---- the same queries on engines in which link 1 is fixed to the root
FixedModels == QueryModelsWith(<<1>>)

InitFixed == InitWith(FixedModels)
SpecFixed == InitFixed /\ [][Next]_vars

\* ---- the per-parent evaluation, with what was presented to it kept
\* raw gradients: along x, with components that sum to zero, zero
HelperGrads == {<<1, 0, 0>>, <<1, -1, 0>>, Zero3}

\* the packer finds one sphere, at the last voxel size only
LastPack == [k \in 1..MaxAttempts |-> IF k = MaxAttempts THEN 1 ELSE 0]

\* link 1 is the one Active link, holding two spheres or one; the root is
\* Static and the other links are Dynamic; the pair (1, 2) may be disabled
HelperModels ==
  [root : {NumLinks},
   fixed : {[l \in Links |-> <<>>]},
   groups : {<<[name |-> "g1", links |-> <<1>>]>>},
   shapes : {[l \in Links |-> <<"BOX">>]},
   disabled : {<<>>, <<<<1, 2>>>>},
   pack : {[l \in Links |-> ConstPack(2)],
           [l \in Links |-> IF l = 1 THEN LastPack ELSE ConstPack(2)]}]

InitHelper == InitWith(HelperModels)

NextHelper ==
  \/ Constructor
  \/ DistanceSelfBegin({FALSE, TRUE}, {TRUE})
  \/ DistanceSelfEval(HelperGrads, {0}, TRUE)
  \/ DistanceSelfMinimum

SpecHelper == InitHelper /\ [][NextHelper]_vars

\* ---- a caller that passes a cleared result object or the one the last
\* call filled
NextReuse ==
  \/ Constructor
  \/ DistanceSelfBegin({FALSE}, {TRUE, FALSE})
  \/ DistanceSelfEval({Zero3}, {0}, FALSE)
  \/ DistanceSelfMinimum

SpecReuse == InitHelper /\ [][NextReuse]_vars

\* ---- the allow-list filter
\* the caller's matrices: entries for the pair of links 1 and 2 in either
\* direction, of any type, symmetric or not
CallerAcms ==
  {AcmPtr(m) : m \in [{<<1, 2>>, <<2, 1>>} -> {"NEVER", "ALWAYS", "CONDITIONAL"}]}

\* link 1 has geometry and is in the joint group, any other link may have no
\* collision geometry (and then no entry in the engine's matrix)
AcmModels ==
  [root : {NumLinks},
   fixed : {[l \in Links |-> <<>>]},
   groups : {<<[name |-> "g1", links |-> <<1>>]>>},
   shapes : {sh \in [Links -> {<<>>, <<"BOX">>}] : sh[1] = <<"BOX">>},
   disabled : {<<>>, <<<<1, 2>>>>, <<<<2, 1>>, <<1, NumLinks>>>>},
   pack : {[l \in Links |-> ConstPack(2)]}]

InitAcm == InitWith(AcmModels)
NextAcm == Constructor \/ CallIsCollisionAllowed(CallerAcms)
SpecAcm == InitAcm /\ [][NextAcm]_vars

\* ---- sphere packing
\* what the packer finds at the successive voxel sizes: nothing, except at
\* up to two of them
PackProfiles ==
  {[k \in 1..MaxAttempts |-> IF k = a THEN x ELSE IF k = b THEN y ELSE 0] :
     a \in 1..MaxAttempts, b \in 1..MaxAttempts, x \in 0..MaxPack, y \in 0..MaxPack}

\* link 1 is the one Active link, with any profile; the other links pack two
PackModels ==
  [root : {NumLinks},
   fixed : {[l \in Links |-> <<>>]},
   groups : {<<[name |-> "g1", links |-> <<1>>]>>},
   shapes : {[l \in Links |-> <<"BOX">>]},
   disabled : {<<>>},
   pack : {[l \in Links |-> IF l = 1 THEN pr ELSE ConstPack(2)] : pr \in PackProfiles}]

InitPack == InitWith(PackModels)
SpecPack == InitPack /\ [][Constructor]_vars

\* ---- fields
\* links of supported shapes, of unsupported shapes only, or of both
FieldModels ==
  [root : {NumLinks},
   fixed : {[l \in Links |-> <<>>]},
   groups : {<<[name |-> "g1", links |-> <<1>>]>>},
   shapes : [Links -> {<<"BOX">>, <<"OCTREE">>, <<"PLANE", "UNKNOWN_SHAPE">>, <<"OCTREE", "SPHERE">>}],
   disabled : {<<>>},
   pack : {[l \in Links |-> ConstPack(2)]}]

InitField == InitWith(FieldModels)
NextField == Constructor \/ CallGetDistance(SampleVals)
SpecField == InitField /\ [][NextField]_vars

\* ================================================================= claims

\* C1: after construction the Static, Active and Dynamic link lists are
\* pairwise disjoint and their union is exactly the set of links with
\* collision geometry; a link fixed to the root that is also a member of a
\* joint group is not classified both Static and Active.
C1_ClassesPartitionLinks ==
  pc = "ready" =>
    /\ Range(static_links_) \cap Range(active_links_) = {}
    /\ Range(static_links_) \cap Range(dynamic_links_) = {}
    /\ Range(active_links_) \cap Range(dynamic_links_) = {}
    /\ Range(static_links_) \cup Range(active_links_) \cup Range(dynamic_links_) = Range(links_)

\* C2: the filter says "must be queried" (returns false) whenever the
\* allow-list is absent, has no entry for the pair or has an entry other than
\* ALWAYS, and "may be skipped" (returns true) only for an explicit ALWAYS
\* entry; for a symmetric allow-list (A,B) and (B,A) get the same answer.
SymmetricAcm(acm) ==
  acm.null \/ \A p \in DOMAIN acm.entries :
                 /\ <<p[2], p[1]>> \in DOMAIN acm.entries
                 /\ acm.entries[<<p[2], p[1]>>] = acm.entries[p]

C2_SkipOnlyForAlways ==
  call.op = "isCollisionAllowed" =>
    LET acm == call.acm
        has == ~acm.null /\ <<call.l1, call.l2>> \in DOMAIN acm.entries
        always == has /\ acm.entries[<<call.l1, call.l2>>] = "ALWAYS"
    IN /\ call.ret = always
       /\ SymmetricAcm(acm) => isCollisionAllowed(call.l2, call.l1, acm) = call.ret

\* a call with an allow-list that has no entry for the pair answered "query"
C2_NoEntryAsked ==
  /\ call.op = "isCollisionAllowed"
  /\ ~call.acm.null
  /\ <<call.l1, call.l2>> \notin DOMAIN call.acm.entries
  /\ call.ret = FALSE

\* C3: a distanceSelf request naming a group the kinematic model does not
\* have is rejected: no per-part result is inserted into the result and no
\* global minimum is written. Stated for the engines that have an Active
\* part with a non-empty query plan.
C3_UnknownGroupRejected ==
  (/\ call.op = "distanceSelf"
   /\ call.unknown
   /\ \E k \in 1..Len(call.dist_query) : ~call.dist_query[k].empty) =>
    /\ res.distance = <<>>
    /\ res.minimum_distance = DistanceResultsData

\* C4: a distanceSelf request (for a group of the model) that evaluated no
\* Active part completes with an empty per-part result set: it read no
\* element of the empty result map and added no entry to it.
C4_NoPartsNoEntries ==
  (call.op = "distanceSelf" /\ ~call.unknown /\ call.done /\ call.evals = <<>>) =>
    /\ ~call.read_end
    /\ res.distance = <<>>

\* C5: every per-parent result (of a request for a group of the model) that
\* reports hasGradient = true has a gradient of unit magnitude, also when
\* the candidates' weighted gradients cancel.
C5_GradientIsUnit ==
  (call.op = "distanceSelf" /\ ~call.unknown) =>
    \A k \in 1..Len(call.evals) :
      call.evals[k].hasGradient => IsUnit(call.evals[k].gradient)

\* the voxel size v halved n times
RECURSIVE HalfTimes(_, _)
HalfTimes(v, n) == IF n = 0 THEN v ELSE HalfTimes(Half(v), n - 1)

\* C6: the packing loop terminates: an attempt that leaves at most one
\* sphere is followed by one at half the voxel size, at most 10 attempts
\* are made, and a part left with at most one sphere after them is marked
\* degenerate (the error is logged for it and its query plan is empty).
C6_RetriesEndDegenerate ==
  /\ loop.j <= MaxAttempts
  /\ pc = "pack" => loop.v = HalfTimes(voxel_size_, loop.j)
  /\ pc = "ready" =>
       \A i \in 1..Len(active_links_) :
         Len(active_spheres_[i]) <= 1 =>
           /\ <<"ERROR", "Unable to generate spheres for link", active_links_[i]>> \in log
           /\ dist_query_[i].empty

\* C7: if every pair of an Active part P (with spheres) and another part is
\* always-allowed, P's query plan has no candidates and a query returns for
\* P the background distance with no named neighbour.
C7_AllAllowedNoCandidates ==
  pc \in {"ready", "query"} =>
    \A j \in 1..Len(active_links_) :
      LET P == active_links_[j]
      IN (/\ Len(active_spheres_[j]) > 0
          /\ \A C \in Range(links_) \ {P} : isCollisionAllowed(P, C, AcmPtr(acm_))) =>
           /\ dist_query_[j].child_name = <<>>
           /\ call.op = "distanceSelf" =>
                \A k \in 1..Len(call.evals) :
                  call.evals[k].link_name[1] = P =>
                    /\ call.evals[k].min_distance = background_
                    /\ call.evals[k].link_name[2] = NoName

\* the spheres held for link after h attempts of the retry loop
RECURSIVE HeldAfter(_, _)
HeldAfter(link, h) ==
  IF h = 0 THEN 0
  ELSE LET n == robot_model_.pack[link][h]
       IN HeldAfter(link, h - 1) + (IF n < n_spheres THEN n ELSE n_spheres)

\* the first attempt after which more than one sphere is held, 0 for none
FirstEnough(link) ==
  IF \E h \in 1..MaxAttempts : HeldAfter(link, h) > 1
  THEN CHOOSE h \in 1..MaxAttempts :
         HeldAfter(link, h) > 1 /\ \A g \in 1..(h - 1) : HeldAfter(link, g) <= 1
  ELSE 0

\* C8: the field stored for an Active part is the field of the first
\* attempt after which more than one sphere is held (for 0 spheres at the
\* nominal voxel size and 3 at half of it: the field at the halved voxel
\* size), and the part's query plan is marked non-empty.
C8_StoredFieldOfFirstEnough ==
  pc = "ready" =>
    \A i \in 1..Len(active_links_) :
      LET h == FirstEnough(active_links_[i])
          sdf == active_sdf_[i]
      IN h > 0 =>
           /\ sdf.voxel_size_ = HalfTimes(voxel_size_, h - 1)
           /\ sdf.grid_ # NullGrid
           /\ \A k \in 1..Len(sdf.grid_) : sdf.grid_[k].voxel = HalfTimes(voxel_size_, h - 1)
           /\ ~dist_query_[i].empty

\* no sphere at the nominal voxel size, three at half of it: the halved field
C8_HalvedFieldStored ==
  /\ pc = "ready"
  /\ active_links_ = <<1>>
  /\ robot_model_.pack[1][1] = 0
  /\ robot_model_.pack[1][2] = 3
  /\ active_sdf_[1].voxel_size_ = Half(voxel_size_)
  /\ Len(active_spheres_[1]) = 3
  /\ ~dist_query_[1].empty

C10_EmptyFieldIsBackground ==
  (call.op = "getDistance" /\ call.sdf.grid_ = NullGrid) =>
    /\ ~call.crash
    /\ call.ret = background_

\* C11: construction failures are isolated per part: when every shape of a
\* part is of an unsupported kind the constructor still completes (it does
\* not stop before the other parts' fields, spheres and plans are built).
C11_ConstructionCompletes ==
  call.op = "none" => pc # "crashed"

\* what the constructor builds: the engine's members
engine ==
  <<robot_model_, links_, acm_, static_links_, static_sdf_, active_links_, active_sdf_,
    active_spheres_, dynamic_links_, dynamic_sdf_, dist_query_>>

ValidSamples(data, sdfs) ==
  {p \in (1..Len(data.child_index)) \X (1..Len(data.spheres)) :
     Abs(sdfs[p[1]].samples[p[2]] - background_) >= ApproxEps}

\* sample minus sphere radius
Effective(data, sdfs, p) == sdfs[p[1]].samples[p[2]] - data.spheres[p[2]].radius

\* the smallest effective distance over the valid samples (some exist)
SmallestEffective(data, sdfs) ==
  LET V == ValidSamples(data, sdfs)
      q == CHOOSE p \in V : \A r \in V : Effective(data, sdfs, p) <= Effective(data, sdfs, r)
  IN Effective(data, sdfs, q)

\* C13 as stated: for an Active parent with a valid sample, the reported
\* minimum distance equals the minimum over all candidates and spheres with
\* a non-background sample of (sample minus radius), and the reported
\* neighbour is a candidate that attains it.
C13_MinimumOverValidSamples ==
  call.op = "distanceSelf" /\ ~call.unknown =>
    \A k \in 1..Len(call.sdfs_data) :
      LET data == call.dist_query[call.sdfs_data[k].plan]
          sdfs == call.sdfs_data[k].sdfs
          d == call.evals[k]
      IN ValidSamples(data, sdfs) # {} =>
           /\ d.min_distance = SmallestEffective(data, sdfs)
           /\ \E p \in ValidSamples(data, sdfs) :
                /\ data.child_name[p[1]] = d.link_name[2]
                /\ Effective(data, sdfs, p) = d.min_distance

\* C13 amended: the reported minimum distance is the smaller of the
\* background and the minimum over the valid samples of (sample minus
\* radius); when that minimum is below the background the reported
\* neighbour is a candidate attaining it, otherwise none is named.
C13_MinimumCappedAtBackground ==
  call.op = "distanceSelf" =>
    \A k \in 1..Len(call.sdfs_data) :
      LET data == call.dist_query[call.sdfs_data[k].plan]
          sdfs == call.sdfs_data[k].sdfs
          d == call.evals[k]
          V == ValidSamples(data, sdfs)
      IN IF V # {} /\ SmallestEffective(data, sdfs) < background_
         THEN /\ d.min_distance = SmallestEffective(data, sdfs)
              /\ \E p \in V :
                   /\ data.child_name[p[1]] = d.link_name[2]
                   /\ Effective(data, sdfs, p) = d.min_distance
         ELSE /\ d.min_distance = background_
              /\ d.link_name[2] = NoName

\* two candidates with valid samples, the second one the nearer and named
C13_SecondCandidateNearest ==
  /\ call.op = "distanceSelf" /\ ~call.unknown
  /\ Len(call.sdfs_data) = 1
  /\ Len(call.dist_query[1].child_name) = 2
  /\ call.sdfs_data[1].sdfs[1].samples[1] = 6
  /\ call.sdfs_data[1].sdfs[2].samples[1] = 4
  /\ call.evals[1].link_name[2] = call.dist_query[1].child_name[2]
  /\ call.evals[1].min_distance < 4

\* candidate i of the plan has a valid distance (a valid sample whose
\* effective distance is below the background) and a nonzero raw gradient
\* at every voxel sampled
ContributesByStatement(data, sdfs, i) ==
  /\ \E p \in ValidSamples(data, sdfs) : p[1] = i /\ Effective(data, sdfs, p) < background_
  /\ \A j \in 1..Len(data.spheres) : sdfs[i].gradients[j] # Zero3

\* C14: when a gradient is requested, every candidate with a valid distance
\* and a nonzero raw gradient contributes to the blend, so a parent with
\* such a candidate reports that it has a gradient; a raw gradient is
\* discarded only when it is exactly zero ((1,-1,0) is not).
C14_NonzeroGradientContributes ==
  call.op = "distanceSelf" /\ ~call.unknown =>
    \A k \in 1..Len(call.sdfs_data) :
      LET data == call.dist_query[call.sdfs_data[k].plan]
          sdfs == call.sdfs_data[k].sdfs
      IN (data.gradient /\ \E i \in 1..Len(data.child_index) : ContributesByStatement(data, sdfs, i))
           => call.evals[k].hasGradient

\* C15: once construction is over, the sphere set cached for an Active part
\* is exactly what the packer returns on the field stored for that part: no
\* sphere of an earlier, coarser attempt is in it.
C15_SpheresOfStoredFieldOnly ==
  pc = "ready" =>
    \A i \in 1..Len(active_links_) :
      active_sdf_[i] # NullSdf =>
        active_spheres_[i] = packedSpheres(active_links_[i], active_sdf_[i].voxel_size_, n_spheres)

\* C16: an Active part left with at most one sphere after all retries gets
\* no per-parent evaluation: every plan a query evaluates belongs to a
\* parent with more than one sphere.
C16_DegeneratePartNotEvaluated ==
  call.op = "distanceSelf" /\ ~call.unknown =>
    \A k \in 1..Len(call.sdfs_data) :
      Len(call.dist_query[call.sdfs_data[k].plan].spheres) > 1

\* no element occurs twice in the sequence
NoDuplicates(seq) == \A a, b \in 1..Len(seq) : seq[a] = seq[b] => a = b

\* C17: the Static parts of one fixed subtree share one field. When at most
\* one part is fixed directly to the root there is one fixed subtree, so
\* (with no part listed twice) at most one static field.
C17_OneFieldPerFixedSubtree ==
  (/\ pc = "ready"
   /\ Len(robot_model_.fixed[robot_model_.root]) <= 1
   /\ NoDuplicates(static_links_))
    => Len(static_sdf_) <= 1

\* C18: the fixed-attachment walk enters no part into the Static list more
\* than once, the root included, whatever the fixed-attachment relation
\* (a part may list the root or its own parent); the walk terminates.
C18_NoPartStaticTwice ==
  pc \notin {"acm", "static"} => NoDuplicates(static_links_)

\* the candidates of a plan as (name, class, position) triples
CandidatesOf(data) ==
  {<<data.child_name[k], data.child_type[k], data.child_index[k]>> : k \in 1..Len(data.child_name)}

\* the parts of one class list other than P whose pair with P has to be
\* queried, with the class and the position in the list
ClassCandidates(list, type, P) ==
  {<<list[i], type, i>> : i \in {n \in 1..Len(list) : list[n] # P /\ ~isCollisionAllowed(list[n], P, AcmPtr(acm_))}}

\* C19: the plan of an Active part P with spheres holds exactly the parts C
\* of the three classes with C # P whose pair with P is not always allowed,
\* each with its class and its position in that class's array; P is never
\* its own candidate, whichever class list it appears in.
C19_PlanIsFilteredOthers ==
  pc = "ready" =>
    \A j \in 1..Len(dist_query_) :
      ~dist_query_[j].empty =>
        LET P == dist_query_[j].parent_name
        IN /\ ~Contains(dist_query_[j].child_name, P)
           /\ CandidatesOf(dist_query_[j]) =
                ClassCandidates(active_links_, "Active", P)
                  \cup ClassCandidates(dynamic_links_, "Dynamic", P)
                  \cup ClassCandidates(static_links_, "Static", P)

\* C20: after a finished query the caller's result object holds, for every
\* part evaluated in this call, the result computed in this call, and its
\* overall minimum is one of them, whether the object was passed in cleared
\* or still holding the entries of an earlier call.
C20_ResultReflectsCurrentCall ==
  (call.op = "distanceSelf" /\ call.done /\ ~call.unknown) =>
    /\ \A k \in 1..Len(call.evals) :
         res.distance[call.evals[k].link_name[1]] = call.evals[k]
    /\ Len(call.evals) >= 1 => \E k \in 1..Len(call.evals) : res.minimum_distance = call.evals[k]

====
